---------------------------- MODULE Spec2Model ----------------------------
(***************************************************************************)
(* Model of the ayon-usd addon packager (create_package.py) and of the     *)
(* tray-start download hook of USDAddon (client/ayon_usd/addon.py).        *)
(*                                                                         *)
(* A file name is a tuple of one-character strings, a path is a tuple of   *)
(* names (its components), so os.path.join is Append / \o and              *)
(* os.path.sep.join(items) is the tuple of items itself.                   *)
(***************************************************************************)
EXTENDS Integers, Sequences, FiniteSets, TLC

VARIABLES
    \* ---- find_files_in_subdir, run on its own (SpecWalk) ----
    wPc,          \* "build" | "walk" | "done" | "off"
    wTree,        \* the directory tree under src_path: [files, dirs] sets of paths
    wFilePats,    \* ignore_file_patterns
    wDirPats,     \* ignore_dir_patterns
    wQueue,       \* hierarchy_queue
    wItem,        \* the item popped last: [dirpath, parents]
    wNames,       \* names of os.listdir(dirpath) the for loop has not reached yet
    wOut,         \* output
    wListed       \* history: the directories os.listdir was called on

walkVars == <<wPc, wTree, wFilePats, wDirPats, wQueue, wItem, wNames, wOut, wListed>>

VARIABLES
    \* ---- main() of create_package.py (Spec) ----
    pc,                 \* the statement of main() that runs next
    fs,                 \* the file system: [data: path -> content, dirs: set of paths]
    skip_zip,           \* argument of main()
    keep_sources,       \* argument of main()
    idx,                \* position of the loop that is running
    zip_files_info,     \* zip_files_info of download_usd_zip, files_info of main
    filepaths_to_copy,  \* filepaths_to_copy of copy_server_content
    done,               \* history: the steps this run has completed
    pre,                \* history: what download_usd_zip found at each zip_path
    fetched,            \* history: the entries urlretrieve was called for
    raisedAt,           \* history: the step that raised, "" while none has
    before              \* history: the output directory when the run started

pkgVars == <<pc, fs, skip_zip, keep_sources, idx, zip_files_info, filepaths_to_copy,
             done, pre, fetched, raisedAt, before>>

VARIABLES
    \* ---- USDAddon.tray_start and the download dialog (SpecAddon) ----
    aPc,                   \* the statement of the addon's lifecycle that runs next
    download_usd,          \* what is_usd_download_needed() returns
    self_download_window,  \* self._download_window: "None" or "dialog"
    dialog,                \* the download dialog: "none" | "shown" | "closed"
    connected,             \* finished is connected to _on_download_finish
    started,               \* the dialog's start() was called
    total,                 \* the parts of the archive the dialog has to fetch
    received,              \* the parts it has fetched
    emitted,               \* the finished signal was delivered
    aError                 \* history: _on_download_finish raised

addonVars == <<aPc, download_usd, self_download_window, dialog, connected, started,
               total, received, emitted, aError>>

vars == <<walkVars, pkgVars, addonVars>>

(***************************************************************************)
(* Names and regular expressions                                           *)
(***************************************************************************)
A_PY     == <<"a", ".", "p", "y">>
A_PYC    == <<"a", ".", "p", "y", "c">>
DOT_GIT  == <<".", "g">>
PYCACHE  == <<"_", "_", "p", "y", "c", "a", "c", "h", "e", "_", "_">>
B_PY     == <<"b", ".", "p", "y">>
SUB      == <<"s", "u", "b">>
SRC      == <<"s", "r", "c">>

\* A compiled pattern: a literal, anchored at the start (^) and/or the end ($).
Pattern(lit, bol, eol) == [lit |-> lit, bol |-> bol, eol |-> eol]

\* regex.search(value): the pattern matches somewhere in value.
Search(regex, value) ==
    \E i \in 1..(Len(value) + 1) :
        LET j == i + Len(regex.lit) - 1 IN
        /\ j <= Len(value)
        /\ SubSeq(value, i, j) = regex.lit
        /\ regex.bol => i = 1
        /\ regex.eol => j = Len(value)

IGNORE_DIR_PATTERNS ==
    { Pattern(<<".">>, TRUE, FALSE), Pattern(PYCACHE, TRUE, TRUE) }

IGNORE_FILE_PATTERNS ==
    { Pattern(<<".">>, TRUE, FALSE), Pattern(<<".", "p", "y", "c">>, FALSE, TRUE) }

value_match_regexes(value, regexes) == \E regex \in regexes : Search(regex, value)

(***************************************************************************)
(* Directory trees                                                         *)
(***************************************************************************)
Last(s) == s[Len(s)]
Front(s) == SubSeq(s, 1, Len(s) - 1)
IsPrefix(p, q) == Len(p) <= Len(q) /\ SubSeq(q, 1, Len(p)) = p

\* The path components of path below the root.
Below(root, path) == SubSeq(path, Len(root) + 1, Len(path))

EmptyTree(root) == [files |-> {}, dirs |-> {root}]

\* os.listdir(dirpath): the names of the entries of dirpath.
ListDir(tree, dirpath) ==
    { Last(q) : q \in { x \in tree.files \cup tree.dirs : Len(x) > 0 /\ Front(x) = dirpath } }

\* os.path.isfile(path)
IsFile(tree, path) == path \in tree.files

(***************************************************************************)
(* find_files_in_subdir                                                    *)
(***************************************************************************)
\* The body of the for loop for one name of the listing of item.dirpath:
\* acc = [queue, output] before, the result after.
WalkEntryBadSwap(tree, item, name, acc, fpats, dpats) ==
    LET path == Append(item.dirpath, name)
        items == Append(item.parents, name)
    IN  IF IsFile(tree, path)
        THEN IF ~value_match_regexes(name, dpats)
             THEN [acc EXCEPT !.output = Append(@, <<path, items>>)]
             ELSE acc
        ELSE IF ~value_match_regexes(name, fpats)
             THEN [acc EXCEPT !.queue = Append(@, [dirpath |-> path, parents |-> items])]
             ELSE acc

WalkEntry(tree, item, name, acc, fpats, dpats) ==
    LET path == Append(item.dirpath, name)
        items == Append(item.parents, name)
    IN  IF IsFile(tree, path)
        THEN IF ~value_match_regexes(name, fpats)
             THEN [acc EXCEPT !.output = Append(@, <<path, items>>)]
             ELSE acc
        ELSE IF ~value_match_regexes(name, dpats)
             THEN [acc EXCEPT !.queue = Append(@, [dirpath |-> path, parents |-> items])]
             ELSE acc

\* The for loop over one listing, in one of the orders os.listdir may give.
RECURSIVE WalkListing(_, _, _, _, _, _)
WalkListing(tree, item, names, acc, fpats, dpats) ==
    IF names = {} THEN acc
    ELSE LET name == CHOOSE n \in names : TRUE
         IN  WalkListing(tree, item, names \ {name},
                         WalkEntry(tree, item, name, acc, fpats, dpats), fpats, dpats)

\* The while loop.
RECURSIVE WalkLoop(_, _, _, _)
WalkLoop(tree, acc, fpats, dpats) ==
    IF acc.queue = <<>> THEN acc.output
    ELSE LET item == Head(acc.queue)
             popped == [acc EXCEPT !.queue = Tail(@)]
         IN  WalkLoop(tree,
                      WalkListing(tree, item, ListDir(tree, item.dirpath),
                                  popped, fpats, dpats),
                      fpats, dpats)

find_files_in_subdir(tree, src_path, fpats, dpats) ==
    WalkLoop(tree,
             [queue |-> <<[dirpath |-> src_path, parents |-> <<>>]>>, output |-> <<>>],
             fpats, dpats)

(***************************************************************************)
(* The packager: names, paths and file contents                            *)
(***************************************************************************)
REPO            == <<"r", "e", "p", "o">>
SERVER          == <<"s", "e", "r", "v", "e", "r">>
CLIENT          == <<"c", "l", "i", "e", "n", "t">>
PRIVATE         == <<"p", "r", "i", "v", "a", "t", "e">>
DOWNLOADS       == <<"d", "o", "w", "n", "l", "o", "a", "d", "s">>
PACKAGE         == <<"p", "a", "c", "k", "a", "g", "e">>
PACKAGE_PY      == <<"p", "a", "c", "k", "a", "g", "e", ".", "p", "y">>
VERSION_PY      == <<"v", "e", "r", "s", "i", "o", "n", ".", "p", "y">>
CLIENT_ZIP      == <<"c", "l", "i", "e", "n", "t", ".", "z", "i", "p">>
FILES_INFO_JSON == <<"f", "i", "l", "e", "s", "_", "i", "n", "f", "o", ".", "j", "s", "o", "n">>
DOT_ZIP         == <<".", "z", "i", "p">>

\* package.name, package.version, package.client_dir
ADDON_NAME       == <<"u", "s", "d">>
ADDON_VERSION    == <<"1", ".", "0">>
ADDON_CLIENT_DIR == <<"a", "y", "o", "n", "_", "u", "s", "d">>

\* CLIENT_VERSION_CONTENT.format(name, version)
CLIENT_VERSION_CONTENT(name, version) == <<"version.py", name, version>>

\* The archives as the distribution server is meant to serve them, and what a broken
\* transfer may store instead.
USD_WIN_BYTES   == <<1, 2>>
USD_LINUX_BYTES == <<2, 1>>
CORRUPT_BYTES   == <<3>>
Bytes(b) == <<"bytes", b>>

\* hash_obj.update(chunk) and hash_obj.hexdigest(), the digest being a number here
HashUpdate(h, chunk) ==
    LET RECURSIVE Fold(_, _)
        Fold(acc, i) == IF i > Len(chunk) THEN acc
                        ELSE Fold((acc * 7 + chunk[i] + 1) % 101, i + 1)
    IN  Fold(h, 1)

DefaultChunkSize == 10000

\* calculate_file_checksum on the bytes of the file: f.read(chunk_size) until b"".
calculate_file_checksum(content, hash_algorithm, chunk_size) ==
    LET bytes == content[2]
        RECURSIVE Read(_, _)
        Read(h, pos) ==
            IF pos > Len(bytes) THEN h
            ELSE LET last == IF pos + chunk_size - 1 < Len(bytes)
                             THEN pos + chunk_size - 1 ELSE Len(bytes)
                 IN  Read(HashUpdate(h, SubSeq(bytes, pos, last)), last + 1)
    IN  <<hash_algorithm, Read(0, 1)>>

AYON_SOURCE_URL == << <<"h", "t", "t", "p", "s", ":">>, <<>>, <<"h", "o", "s", "t">>,
                      <<"t", "h", "i", "r", "d", "p", "a", "r", "t", "y">> >>
WIN_ZIP   == <<"w", "i", "n">> \o DOT_ZIP
LINUX_ZIP == <<"l", "i", "n", "u", "x">> \o DOT_ZIP

\* USD_SOURCES, flattened in the order the two for loops visit it. A declared
\* checksum is the digest of the archive as published.
USD_SOURCES ==
    << [item_name |-> "24.03", platform_name |-> "windows",
        url |-> Append(AYON_SOURCE_URL, WIN_ZIP),
        checksum |-> calculate_file_checksum(Bytes(USD_WIN_BYTES), "sha256", DefaultChunkSize)[2],
        checksum_algorithm |-> "sha256"],
       [item_name |-> "24.03", platform_name |-> "linux",
        url |-> Append(AYON_SOURCE_URL, LINUX_ZIP),
        checksum |-> calculate_file_checksum(Bytes(USD_LINUX_BYTES), "sha256", DefaultChunkSize)[2],
        checksum_algorithm |-> "sha256"] >>

\* src_url.split("/")[-1]
UrlFilename(src_url) == Last(src_url)

(***************************************************************************)
(* The file system                                                         *)
(***************************************************************************)
Prefixes(path) == { SubSeq(path, 1, k) : k \in 1..Len(path) }

\* os.path.exists, os.path.isdir
PathExists(f, path) == path \in DOMAIN f.data \/ path \in f.dirs
IsDir(f, path) == path \in f.dirs

\* open(path, "w").write(content), shutil.copy's write of the destination
WriteFile(f, path, content) ==
    [f EXCEPT !.data = [q \in (DOMAIN f.data) \cup {path} |->
                            IF q = path THEN content ELSE f.data[q]]]

\* os.remove(path)
RemoveFile(f, path) ==
    [f EXCEPT !.data = [q \in (DOMAIN f.data) \ {path} |-> f.data[q]]]

\* os.makedirs(path), Path.mkdir(parents=True): the directory and its parents
MakeDirs(f, path) == [f EXCEPT !.dirs = @ \cup Prefixes(path)]

\* shutil.rmtree(path): the directory and everything under it
RmTree(f, path) ==
    [data |-> [q \in { x \in DOMAIN f.data : ~IsPrefix(path, x) } |-> f.data[q]],
     dirs |-> { d \in f.dirs : ~IsPrefix(path, d) }]

\* The tree find_files_in_subdir and os.walk see.
TreeOf(f) == [files |-> DOMAIN f.data, dirs |-> f.dirs]

\* The files under a directory, by their path below it.
FilesUnder(f, dir) ==
    [rel \in { Below(dir, p) : p \in { x \in DOMAIN f.data : IsPrefix(dir, x) /\ x # dir } }
        |-> f.data[dir \o rel]]

\* The paths main() works with.
current_dir == <<REPO>>
output_dir == <<REPO, PACKAGE>>
downloads_dir == <<REPO, DOWNLOADS>>
addon_output_root == Append(output_dir, ADDON_NAME)
addon_output_dir == Append(addon_output_root, ADDON_VERSION)
private_dir == Append(addon_output_dir, PRIVATE)
version_file == <<REPO, CLIENT, ADDON_CLIENT_DIR, VERSION_PY>>
ServerPackagePath(addon_version) ==
    Append(output_dir, ADDON_NAME \o <<"-">> \o addon_version \o DOT_ZIP)

(***************************************************************************)
(* The functions main() calls                                              *)
(***************************************************************************)
\* A set as a list, in one of the orders a directory listing may come in.
RECURSIVE SetToSeq(_)
SetToSeq(S) ==
    IF S = {} THEN <<>>
    ELSE LET x == CHOOSE y \in S : TRUE IN <<x>> \o SetToSeq(S \ {x})

\* What is left of a file whose write broke off.
Truncated(content) == <<"truncated", content[1]>>

\* safe_copy_file. makedirs_fails: os.makedirs raises something else than "the
\* directory exists"; contextlib.suppress(Exception) swallows both. shutil.copy2
\* raises when the source is missing or the destination directory does not exist.
safe_copy_file_suppress_all(f, src_path, dst_path, makedirs_fails) ==
    IF src_path = dst_path THEN [fs |-> f, raised |-> FALSE]
    ELSE LET dst_dir == Front(dst_path)
             made == IF PathExists(f, dst_dir) \/ makedirs_fails
                     THEN f ELSE MakeDirs(f, dst_dir)
         IN  IF src_path \in DOMAIN made.data /\ IsDir(made, dst_dir)
             THEN [fs |-> WriteFile(made, dst_path, made.data[src_path]), raised |-> FALSE]
             ELSE [fs |-> made, raised |-> FALSE]

safe_copy_file(f, src_path, dst_path, makedirs_fails) ==
    IF src_path = dst_path THEN [fs |-> f, raised |-> FALSE]
    ELSE LET dst_dir == Front(dst_path)
             made == IF PathExists(f, dst_dir) \/ makedirs_fails
                     THEN f ELSE MakeDirs(f, dst_dir)
         IN  IF src_path \in DOMAIN made.data /\ IsDir(made, dst_dir)
             THEN [fs |-> WriteFile(made, dst_path, made.data[src_path]), raised |-> FALSE]
             ELSE [fs |-> made, raised |-> TRUE]

\* copy_server_content, up to the copy loop: filepaths_to_copy.
ServerFilepaths(f, addon_out, cur_dir) ==
    LET server_dirpath == Append(cur_dir, SERVER)
        found == find_files_in_subdir(TreeOf(f), server_dirpath,
                                      IGNORE_FILE_PATTERNS, IGNORE_DIR_PATTERNS)
    IN  [k \in 1..Len(found) |->
            <<found[k][1], Append(addon_out, SERVER) \o found[k][2]>>]

\* _fill_client_version: open(version_file, "w") raises when the directory of
\* version_file does not exist.
fill_client_version_keep(f, cur_dir) ==
    [fs |-> f, raised |-> ~IsDir(f, Front(Append(Append(Append(cur_dir, CLIENT), ADDON_CLIENT_DIR), VERSION_PY)))]

fill_client_version(f, cur_dir) ==
    LET vfile == Append(Append(Append(cur_dir, CLIENT), ADDON_CLIENT_DIR), VERSION_PY)
    IN  IF IsDir(f, Front(vfile))
        THEN [fs |-> WriteFile(f, vfile, CLIENT_VERSION_CONTENT(ADDON_NAME, ADDON_VERSION)),
              raised |-> FALSE]
        ELSE [fs |-> f, raised |-> TRUE]

\* The entries zip_client_side writes: zipf.write(path, sub_path) for each file found.
ClientZipEntries(f, client_dir) ==
    LET found == find_files_in_subdir(TreeOf(f), client_dir,
                                      IGNORE_FILE_PATTERNS, IGNORE_DIR_PATTERNS)
    IN  [k \in 1..Len(found) |-> <<found[k][2], f.data[found[k][1]]>>]

\* zip_client_side
zip_client_side(f, addon_package_dir, cur_dir) ==
    LET client_dir == Append(cur_dir, CLIENT)
        priv == Append(addon_package_dir, PRIVATE)
        made == IF PathExists(f, priv) THEN f ELSE MakeDirs(f, priv)
        zip_filepath == Append(priv, CLIENT_ZIP)
    IN  IF ~IsDir(f, client_dir)
        THEN f
        ELSE WriteFile(made, zip_filepath, <<"zip", ClientZipEntries(f, client_dir)>>)

\* os.walk(top): (root, filenames) of every directory, top down.
RECURSIVE OsWalk(_, _)
OsWalk(tree, top) ==
    LET names == ListDir(tree, top)
        filenames == { n \in names : Append(top, n) \notin tree.dirs }
        dirnames == SetToSeq(names \ filenames)
        RECURSIVE Sub(_)
        Sub(k) == IF k > Len(dirnames) THEN <<>>
                  ELSE OsWalk(tree, Append(top, dirnames[k])) \o Sub(k + 1)
    IN  <<[root |-> top, filenames |-> SetToSeq(filenames)]>> \o Sub(1)

\* dst_path of create_server_package: the file name, below dst_root when there is one.
ZipDstPathFlat(addon_out, root, filename) == <<filename>>

ZipDstPath(addon_out, root, filename) ==
    LET dst_root == IF root # addon_out THEN Below(addon_out, root) ELSE <<>>
    IN  IF dst_root # <<>> THEN Append(dst_root, filename) ELSE <<filename>>

\* create_server_package: the entries written to the archive, in order.
ServerPackageEntries(f, cur_dir, addon_out) ==
    LET walk == OsWalk(TreeOf(f), addon_out)
        RECURSIVE OfDir(_, _)
        OfDir(w, k) ==
            IF k > Len(w.filenames) THEN <<>>
            ELSE << <<ZipDstPath(addon_out, w.root, w.filenames[k]),
                      f.data[Append(w.root, w.filenames[k])]>> >> \o OfDir(w, k + 1)
        RECURSIVE All(_)
        All(i) == IF i > Len(walk) THEN <<>>
                  ELSE (IF walk[i].filenames = <<>> THEN <<>> ELSE OfDir(walk[i], 1))
                       \o All(i + 1)
    IN  << <<(<<PACKAGE_PY>>), f.data[Append(cur_dir, PACKAGE_PY)]>> >> \o All(1)

create_server_package(f, cur_dir, out_dir, addon_out, addon_version) ==
    WriteFile(f, ServerPackagePath(addon_version),
              <<"zip", ServerPackageEntries(f, cur_dir, addon_out)>>)

\* The record download_usd_zip appends for a source.
ZipFileInfo(source) ==
    [name |-> ADDON_NAME,
     filename |-> UrlFilename(source.url),
     checksum |-> source.checksum,
     checksum_algorithm |-> source.checksum_algorithm,
     platform |-> source.platform_name]

\* download_usd_zip: the file at zip_path exists and its checksum is the declared one.
ChecksumMatchesExistsOnly(f, source) ==
    Append(downloads_dir, UrlFilename(source.url)) \in DOMAIN f.data

ChecksumMatches(f, source) ==
    LET zip_path == Append(downloads_dir, UrlFilename(source.url))
    IN  /\ zip_path \in DOMAIN f.data
        /\ source.checksum =
             calculate_file_checksum(f.data[zip_path], source.checksum_algorithm,
                                     DefaultChunkSize)[2]

\* download_usd_zip: os.remove(zip_path) of a file whose checksum differs.
RemoveStaleNot(f, zip_path) == f

RemoveStale(f, zip_path) ==
    IF zip_path \in DOMAIN f.data THEN RemoveFile(f, zip_path) ELSE f

\* main(): the purge of what an earlier run left.
PurgeNothing(f) == f

Purge(f) ==
    IF IsDir(f, addon_output_dir) THEN RmTree(f, output_dir) ELSE f

(***************************************************************************)
(* The file system main() is started on                                    *)
(***************************************************************************)
OLD_VERSION == <<"0", ".", "9">>
OTHER_ADDON == <<"o", "t", "h", "e", "r">>
NOTES_TXT   == <<"n", "o", "t", "e", "s", ".", "t", "x", "t">>
OLD_PY      == <<"o", "l", "d", ".", "p", "y">>

Text(t) == <<"text", t>>

\* A file created together with its directories.
RECURSIVE WithFiles(_, _)
WithFiles(f, list) ==
    IF list = <<>> THEN f
    ELSE WithFiles(WriteFile(MakeDirs(f, Front(Head(list)[1])), Head(list)[1], Head(list)[2]),
                   Tail(list))

BareFS == [data |-> [q \in {} |-> <<>>], dirs |-> {<<REPO>>}]

\* The addon repository: package.py, the server tree, the client tree.
RepoFiles == << <<(<<REPO, PACKAGE_PY>>), Text("package.py")>> >>

ServerFiles ==
    << <<(<<REPO, SERVER, A_PY>>), Text("server/a.py")>>,
       <<(<<REPO, SERVER, B_PY>>), Text("server/b.py")>>,
       <<(<<REPO, SERVER, SUB, A_PY>>), Text("server/sub/a.py")>>,
       <<(<<REPO, SERVER, DOT_GIT, A_PY>>), Text("server/.g/a.py")>>,
       <<(<<REPO, SERVER, A_PYC>>), Text("server/a.pyc")>> >>

ClientFiles ==
    << <<version_file, CLIENT_VERSION_CONTENT(ADDON_NAME, OLD_VERSION)>>,
       <<(<<REPO, CLIENT, ADDON_CLIENT_DIR, A_PY>>), Text("client/a.py")>>,
       <<(<<REPO, CLIENT, ADDON_CLIENT_DIR, PYCACHE, A_PYC>>), Text("client/a.pyc")>> >>

\* What the output directory may hold that is not this addon version's package.
OtherOutputFiles ==
    << <<Append(addon_output_root, OLD_VERSION) \o <<SERVER, A_PY>>, Text("usd 0.9")>>,
       <<Append(output_dir, OTHER_ADDON) \o <<ADDON_VERSION, SERVER, A_PY>>, Text("other")>>,
       <<ServerPackagePath(OLD_VERSION), <<"zip", <<>>>> >>,
       <<Append(output_dir, NOTES_TXT), Text("notes")>> >>

\* What an earlier build of other sources may have left at the version path.
StaleVersionFiles ==
    << <<addon_output_dir \o <<SERVER, OLD_PY>>, Text("stale")>>,
       <<Append(private_dir, CLIENT_ZIP), <<"zip", <<>>>> >> >>

InitialFS(has_server, has_client, has_others, has_stale) ==
    WithFiles(BareFS,
              RepoFiles
              \o (IF has_server THEN ServerFiles ELSE <<>>)
              \o (IF has_client THEN ClientFiles ELSE <<>>)
              \o (IF has_others THEN OtherOutputFiles ELSE <<>>)
              \o (IF has_stale THEN StaleVersionFiles ELSE <<>>))

\* The bytes the distribution server publishes for each source.
Published == <<USD_WIN_BYTES, USD_LINUX_BYTES>>

(***************************************************************************)
(* main()                                                                  *)
(***************************************************************************)
Running == {"dl_check", "dl_fetch", "dl_verify", "purge", "version", "mkout", "scan",
            "copy", "mkprivate", "archives", "info", "client", "package", "remove"}

ZipPath(i) == Append(downloads_dir, UrlFilename(USD_SOURCES[i].url))

\* What the history variable "before" keeps of the file system a run starts on.
OutputSnapshot(f) ==
    [out |-> FilesUnder(f, output_dir),
     version_dir |-> IsDir(f, addon_output_dir),
     version_py |-> IF version_file \in DOMAIN f.data THEN f.data[version_file]
                    ELSE <<"absent">>]

InitPkg ==
    /\ pc = "idle"
    /\ \E s, c, o, t \in BOOLEAN : fs = InitialFS(s, c, o, t)
    /\ skip_zip = FALSE
    /\ keep_sources = FALSE
    /\ idx = 1
    /\ zip_files_info = <<>>
    /\ filepaths_to_copy = <<>>
    /\ done = {}
    /\ pre = <<>>
    /\ fetched = {}
    /\ raisedAt = ""
    /\ before = OutputSnapshot(fs)

PkgIdle ==
    /\ pc = "off"
    /\ fs = BareFS
    /\ skip_zip = FALSE
    /\ keep_sources = FALSE
    /\ idx = 1
    /\ zip_files_info = <<>>
    /\ filepaths_to_copy = <<>>
    /\ done = {}
    /\ pre = <<>>
    /\ fetched = {}
    /\ raisedAt = ""
    /\ before = OutputSnapshot(BareFS)

\* An exception leaves main(): the run is over.
Raise(f) ==
    /\ pc' = "failed"
    /\ raisedAt' = pc
    /\ fs' = f
    /\ UNCHANGED <<skip_zip, keep_sources, idx, zip_files_info, filepaths_to_copy,
                   done, pre, before>>

\* main(output_dir, skip_zip, keep_sources) is called, up to downloads_dir.mkdir.
MainStart ==
    /\ pc \in {"idle", "done", "failed"}
    /\ \E s, k \in BOOLEAN : skip_zip' = s /\ keep_sources' = k
    /\ fs' = MakeDirs(fs, downloads_dir)
    /\ pc' = "dl_check"
    /\ idx' = 1
    /\ zip_files_info' = <<>>
    /\ filepaths_to_copy' = <<>>
    /\ done' = {}
    /\ pre' = <<>>
    /\ fetched' = {}
    /\ raisedAt' = ""
    /\ before' = OutputSnapshot(fs)
    /\ UNCHANGED <<walkVars, addonVars>>

\* download_usd_zip moves on to the next source, or returns zip_files_info.
NextSource ==
    IF idx = Len(USD_SOURCES)
    THEN pc' = "purge" /\ idx' = 1 /\ done' = done \cup {"download"}
    ELSE pc' = "dl_check" /\ idx' = idx + 1 /\ done' = done

\* download_usd_zip: the record is appended, an existing file is checked, and
\* skipped when its checksum matches, removed when it does not.
DlCheck ==
    /\ pc = "dl_check"
    /\ zip_files_info' = Append(zip_files_info, ZipFileInfo(USD_SOURCES[idx]))
    /\ pre' = Append(pre, IF ZipPath(idx) \in DOMAIN fs.data
                          THEN fs.data[ZipPath(idx)] ELSE <<"absent">>)
    /\ IF ChecksumMatches(fs, USD_SOURCES[idx])
       THEN fs' = fs /\ NextSource
       ELSE /\ fs' = RemoveStale(fs, ZipPath(idx))
            /\ pc' = "dl_fetch"
            /\ UNCHANGED <<idx, done>>
    /\ UNCHANGED <<skip_zip, keep_sources, filepaths_to_copy, fetched, raisedAt, before>>
    /\ UNCHANGED <<walkVars, addonVars>>

\* urllib.request.urlretrieve(src_url, zip_path): the server sends the published
\* archive, or something else.
DlFetch ==
    /\ pc = "dl_fetch"
    /\ \E bytes \in {Published[idx], CORRUPT_BYTES} :
          fs' = WriteFile(fs, ZipPath(idx), Bytes(bytes))
    /\ fetched' = fetched \cup {idx}
    /\ pc' = "dl_verify"
    /\ UNCHANGED <<skip_zip, keep_sources, idx, zip_files_info, filepaths_to_copy,
                   done, pre, raisedAt, before>>
    /\ UNCHANGED <<walkVars, addonVars>>

\* The checksum of the downloaded file is compared; a mismatch raises ValueError.
DlVerify ==
    /\ pc = "dl_verify"
    /\ IF ChecksumMatches(fs, USD_SOURCES[idx])
       THEN /\ NextSource
            /\ UNCHANGED <<fs, raisedAt, skip_zip, keep_sources, zip_files_info,
                           filepaths_to_copy, pre, before>>
       ELSE Raise(fs)
    /\ UNCHANGED fetched
    /\ UNCHANGED <<walkVars, addonVars>>

\* if os.path.isdir(new_created_version_dir): shutil.rmtree(output_dir)
PurgeStep ==
    /\ pc = "purge"
    /\ fs' = Purge(fs)
    /\ pc' = "version"
    /\ done' = done \cup {"purge"}
    /\ UNCHANGED <<skip_zip, keep_sources, idx, zip_files_info, filepaths_to_copy,
                   pre, fetched, raisedAt, before>>
    /\ UNCHANGED <<walkVars, addonVars>>

\* _fill_client_version(current_dir)
FillVersion ==
    /\ pc = "version"
    /\ LET r == fill_client_version(fs, current_dir)
       IN  IF r.raised THEN Raise(r.fs)
           ELSE /\ fs' = r.fs
                /\ pc' = "mkout"
                /\ done' = done \cup {"version"}
                /\ UNCHANGED <<skip_zip, keep_sources, idx, zip_files_info,
                               filepaths_to_copy, pre, raisedAt, before>>
    /\ UNCHANGED fetched
    /\ UNCHANGED <<walkVars, addonVars>>

\* if not os.path.exists(addon_output_dir): os.makedirs(addon_output_dir)
MkOut ==
    /\ pc = "mkout"
    /\ fs' = IF ~PathExists(fs, addon_output_dir) THEN MakeDirs(fs, addon_output_dir) ELSE fs
    /\ pc' = "scan"
    /\ done' = done \cup {"mkout"}
    /\ UNCHANGED <<skip_zip, keep_sources, idx, zip_files_info, filepaths_to_copy,
                   pre, fetched, raisedAt, before>>
    /\ UNCHANGED <<walkVars, addonVars>>

\* copy_server_content: the files to copy are found; os.listdir raises when the
\* server directory is missing.
Scan ==
    /\ pc = "scan"
    /\ IF ~IsDir(fs, Append(current_dir, SERVER))
       THEN Raise(fs) /\ UNCHANGED fetched
       ELSE LET found == ServerFilepaths(fs, addon_output_dir, current_dir)
            IN  /\ filepaths_to_copy' = found
                /\ idx' = 1
                /\ pc' = IF found = <<>> THEN "mkprivate" ELSE "copy"
                /\ done' = IF found = <<>> THEN done \cup {"copy"} ELSE done
                /\ UNCHANGED <<fs, skip_zip, keep_sources, zip_files_info, pre, fetched,
                               raisedAt, before>>
    /\ UNCHANGED <<walkVars, addonVars>>

\* copy_server_content: safe_copy_file(src_path, dst_path) for one file.
Copy ==
    /\ pc = "copy"
    /\ \E makedirs_fails \in BOOLEAN :
          LET r == safe_copy_file(fs, filepaths_to_copy[idx][1], filepaths_to_copy[idx][2],
                                  makedirs_fails)
          IN  IF r.raised THEN Raise(r.fs)
              ELSE /\ fs' = r.fs
                   /\ IF idx = Len(filepaths_to_copy)
                      THEN pc' = "mkprivate" /\ idx' = 1 /\ done' = done \cup {"copy"}
                      ELSE pc' = "copy" /\ idx' = idx + 1 /\ done' = done
                   /\ UNCHANGED <<skip_zip, keep_sources, zip_files_info,
                                  filepaths_to_copy, pre, raisedAt, before>>
    /\ UNCHANGED fetched
    /\ UNCHANGED <<walkVars, addonVars>>

\* if not private_dir.exists(): private_dir.mkdir(parents=True)
MkPrivate ==
    /\ pc = "mkprivate"
    /\ fs' = IF ~PathExists(fs, private_dir) THEN MakeDirs(fs, private_dir) ELSE fs
    /\ pc' = "archives"
    /\ idx' = 1
    /\ done' = done \cup {"mkprivate"}
    /\ UNCHANGED <<skip_zip, keep_sources, zip_files_info, filepaths_to_copy,
                   pre, fetched, raisedAt, before>>
    /\ UNCHANGED <<walkVars, addonVars>>

\* shutil.copy(downloads_dir / filename, private_dir / filename) for one record.
CopyArchive ==
    /\ pc = "archives"
    /\ LET filename == zip_files_info[idx].filename
           src_path == Append(downloads_dir, filename)
           dst_path == Append(private_dir, filename)
       IN  IF src_path \notin DOMAIN fs.data \/ ~IsDir(fs, private_dir)
           THEN Raise(fs)
           ELSE /\ fs' = WriteFile(fs, dst_path, fs.data[src_path])
                /\ IF idx = Len(zip_files_info)
                   THEN pc' = "info" /\ idx' = 1 /\ done' = done \cup {"archives"}
                   ELSE pc' = "archives" /\ idx' = idx + 1 /\ done' = done
                /\ UNCHANGED <<skip_zip, keep_sources, zip_files_info,
                               filepaths_to_copy, pre, raisedAt, before>>
    /\ UNCHANGED fetched
    /\ UNCHANGED <<walkVars, addonVars>>

\* json.dump(files_info, stream) into private_dir / "files_info.json"
WriteInfo ==
    /\ pc = "info"
    /\ fs' = WriteFile(fs, Append(private_dir, FILES_INFO_JSON), <<"json", zip_files_info>>)
    /\ pc' = "client"
    /\ done' = done \cup {"info"}
    /\ UNCHANGED <<skip_zip, keep_sources, idx, zip_files_info, filepaths_to_copy,
                   pre, fetched, raisedAt, before>>
    /\ UNCHANGED <<walkVars, addonVars>>

\* "if not skip_zip": what follows zip_client_side.
AfterClientAlwaysZip(skip) == "package"

AfterClient(skip) == IF skip THEN "done" ELSE "package"

\* zip_client_side(addon_output_dir, current_dir, log)
ZipClient ==
    /\ pc = "client"
    /\ fs' = zip_client_side(fs, addon_output_dir, current_dir)
    /\ pc' = AfterClient(skip_zip)
    /\ done' = done \cup {"client"}
    /\ UNCHANGED <<skip_zip, keep_sources, idx, zip_files_info, filepaths_to_copy,
                   pre, fetched, raisedAt, before>>
    /\ UNCHANGED <<walkVars, addonVars>>

\* create_server_package(...); then "if not keep_sources".
CreatePackage ==
    /\ pc = "package"
    /\ fs' = create_server_package(fs, current_dir, output_dir, addon_output_dir, ADDON_VERSION)
    /\ pc' = IF keep_sources THEN "done" ELSE "remove"
    /\ done' = done \cup {"package"}
    /\ UNCHANGED <<skip_zip, keep_sources, idx, zip_files_info, filepaths_to_copy,
                   pre, fetched, raisedAt, before>>
    /\ UNCHANGED <<walkVars, addonVars>>

\* shutil.rmtree(addon_output_root)
RemoveSources ==
    /\ pc = "remove"
    /\ fs' = RmTree(fs, addon_output_root)
    /\ pc' = "done"
    /\ done' = done \cup {"remove"}
    /\ UNCHANGED <<skip_zip, keep_sources, idx, zip_files_info, filepaths_to_copy,
                   pre, fetched, raisedAt, before>>
    /\ UNCHANGED <<walkVars, addonVars>>

\* What a statement that breaks off with an I/O error may leave behind: nothing,
\* or the file it was writing, cut short.
BrokenOff(f, at, i) ==
    {f} \cup
    CASE at = "dl_fetch" ->
            {WriteFile(f, ZipPath(i), Bytes(SubSeq(Published[i], 1, 1)))}
      [] at = "copy" ->
            {WriteFile(MakeDirs(f, Front(filepaths_to_copy[i][2])), filepaths_to_copy[i][2],
                       Truncated(f.data[filepaths_to_copy[i][1]]))}
      [] at = "archives" ->
            {WriteFile(f, Append(private_dir, zip_files_info[i].filename), Truncated(Bytes(<<>>)))}
      [] at = "client" ->
            {WriteFile(f, Append(private_dir, CLIENT_ZIP), <<"zip", <<>>>>)}
      [] at = "package" ->
            {WriteFile(f, ServerPackagePath(ADDON_VERSION), <<"zip", <<>>>>)}
      [] OTHER -> {}

\* A network or file system error in the statement that runs: the exception
\* propagates out of main().
IoError ==
    /\ pc \in Running \ {"dl_check", "dl_verify"}
    /\ \E f \in BrokenOff(fs, pc, idx) : Raise(f)
    /\ fetched' = IF pc = "dl_fetch" THEN fetched \cup {idx} ELSE fetched
    /\ UNCHANGED <<walkVars, addonVars>>

NextPkg ==
    \/ MainStart \/ DlCheck \/ DlFetch \/ DlVerify \/ PurgeStep \/ FillVersion
    \/ MkOut \/ Scan \/ Copy \/ MkPrivate \/ CopyArchive \/ WriteInfo \/ ZipClient
    \/ CreatePackage \/ RemoveSources \/ IoError


(***************************************************************************)
(* USDAddon: tray_start and the download dialog                            *)
(***************************************************************************)
MaxChunks == 4

InitAddon ==
    /\ aPc = "new"
    /\ download_usd \in BOOLEAN
    /\ self_download_window = "None"
    /\ dialog = "none"
    /\ connected = FALSE
    /\ started = FALSE
    /\ total \in 0..MaxChunks
    /\ received = 0
    /\ emitted = FALSE
    /\ aError = FALSE

AddonIdle ==
    /\ aPc = "off"
    /\ download_usd = FALSE
    /\ self_download_window = "None"
    /\ dialog = "none"
    /\ connected = FALSE
    /\ started = FALSE
    /\ total = 0
    /\ received = 0
    /\ emitted = FALSE
    /\ aError = FALSE

\* initialize(module_settings)
Initialize ==
    /\ aPc = "new"
    /\ self_download_window' = "None"
    /\ aPc' = "initialized"
    /\ UNCHANGED <<download_usd, dialog, connected, started, total, received, emitted, aError>>
    /\ UNCHANGED <<walkVars, pkgVars>>

\* tray_init()
TrayInit ==
    /\ aPc = "initialized"
    /\ aPc' = "tray"
    /\ UNCHANGED <<download_usd, self_download_window, dialog, connected, started, total,
                   received, emitted, aError>>
    /\ UNCHANGED <<walkVars, pkgVars>>

\* tray_exit()
TrayExit ==
    /\ aPc = "returned"
    /\ aPc' = "exited"
    /\ UNCHANGED <<download_usd, self_download_window, dialog, connected, started, total,
                   received, emitted, aError>>
    /\ UNCHANGED <<walkVars, pkgVars>>

\* tray_start: download_usd = is_usd_download_needed(); if not download_usd: return
TrayStart ==
    /\ aPc = "tray"
    /\ aPc' = IF ~download_usd THEN "returned" ELSE "show"
    /\ UNCHANGED <<download_usd, self_download_window, dialog, connected, started, total,
                   received, emitted, aError>>
    /\ UNCHANGED <<walkVars, pkgVars>>

\* download_window = show_download_window(download_usd)
ShowDownloadWindow ==
    /\ aPc = "show"
    /\ dialog' = "shown"
    /\ aPc' = "connect"
    /\ UNCHANGED <<download_usd, self_download_window, connected, started, total, received,
                   emitted, aError>>
    /\ UNCHANGED <<walkVars, pkgVars>>

\* download_window.finished.connect(self._on_download_finish)
Connect ==
    /\ aPc = "connect"
    /\ connected' = TRUE
    /\ aPc' = "start"
    /\ UNCHANGED <<download_usd, self_download_window, dialog, started, total, received,
                   emitted, aError>>
    /\ UNCHANGED <<walkVars, pkgVars>>

\* download_window.start() is entered: the dialog's fetch begins.
StartCall ==
    /\ aPc = "start"
    /\ started' = TRUE
    /\ aPc' = "starting"
    /\ UNCHANGED <<download_usd, self_download_window, dialog, connected, total, received,
                   emitted, aError>>
    /\ UNCHANGED <<walkVars, pkgVars>>

\* download_window.start() returns.
StartReturn ==
    /\ aPc = "starting"
    /\ aPc' = "store"
    /\ UNCHANGED <<download_usd, self_download_window, dialog, connected, started, total,
                   received, emitted, aError>>
    /\ UNCHANGED <<walkVars, pkgVars>>

\* self._download_window = download_window
StoreWindow ==
    /\ aPc = "store"
    /\ self_download_window' = "dialog"
    /\ aPc' = "returned"
    /\ UNCHANGED <<download_usd, dialog, connected, started, total, received, emitted, aError>>
    /\ UNCHANGED <<walkVars, pkgVars>>

\* The dialog's fetch receives one more part of the archive.
FetchChunk ==
    /\ started
    /\ ~emitted
    /\ received < total
    /\ received' = received + 1
    /\ UNCHANGED <<aPc, download_usd, self_download_window, dialog, connected, started, total,
                   emitted, aError>>
    /\ UNCHANGED <<walkVars, pkgVars>>

\* The dialog's fetch is complete: the signal may be delivered.
FinishedDue == started /\ ~emitted /\ received = total /\ connected

\* _on_download_finish, called when the finished signal is delivered:
\* self._download_window.close() raises AttributeError when the attribute is None.
OnDownloadFinish ==
    /\ FinishedDue
    /\ emitted' = TRUE
    /\ IF self_download_window = "None"
       THEN /\ aError' = TRUE
            /\ UNCHANGED <<dialog, self_download_window>>
       ELSE /\ dialog' = "closed"
            /\ self_download_window' = "None"
            /\ UNCHANGED aError
    /\ UNCHANGED <<aPc, download_usd, connected, started, total, received>>
    /\ UNCHANGED <<walkVars, pkgVars>>


(***************************************************************************)
(* SpecWalk: find_files_in_subdir on every small tree and pattern lists,   *)
(* the entries of each listing taken in every order.                       *)
(***************************************************************************)
MaxNodes == 4

WalkNames == {A_PY, A_PYC, DOT_GIT, PYCACHE}
WalkRoot == <<SRC>>
\* The pairs (ignore_file_patterns, ignore_dir_patterns) the walk is called with:
\* the defaults, no pattern at all, the defaults for one kind only, and a pair of
\* unanchored / end-anchored patterns.
PatternPairs ==
    { <<IGNORE_FILE_PATTERNS, IGNORE_DIR_PATTERNS>>,
      <<{}, {}>>,
      <<IGNORE_FILE_PATTERNS, {}>>,
      <<{}, IGNORE_DIR_PATTERNS>>,
      <<{Pattern(<<"a">>, FALSE, FALSE)}, {Pattern(<<"y">>, FALSE, TRUE)}>> }

NoItem == [dirpath |-> <<>>, parents |-> <<>>]

WalkIdle ==
    /\ wPc = "off"
    /\ wTree = EmptyTree(WalkRoot)
    /\ wFilePats = {}
    /\ wDirPats = {}
    /\ wQueue = <<>>
    /\ wItem = NoItem
    /\ wNames = {}
    /\ wOut = <<>>
    /\ wListed = {}

InitWalk ==
    /\ wPc = "build"
    /\ wTree = EmptyTree(WalkRoot)
    /\ \E pair \in PatternPairs : wFilePats = pair[1] /\ wDirPats = pair[2]
    /\ wQueue = <<>>
    /\ wItem = NoItem
    /\ wNames = {}
    /\ wOut = <<>>
    /\ wListed = {}

TreeSize(tree) == Cardinality(tree.files) + Cardinality(tree.dirs) - 1

\* The file system before the call: a file or a directory is created.
AddFile ==
    /\ wPc = "build"
    /\ TreeSize(wTree) < MaxNodes
    /\ \E d \in wTree.dirs, n \in WalkNames :
          /\ Append(d, n) \notin wTree.files \cup wTree.dirs
          /\ wTree' = [wTree EXCEPT !.files = @ \cup {Append(d, n)}]
    /\ UNCHANGED <<wPc, wFilePats, wDirPats, wQueue, wItem, wNames, wOut, wListed>>
    /\ UNCHANGED <<pkgVars, addonVars>>

AddDir ==
    /\ wPc = "build"
    /\ TreeSize(wTree) < MaxNodes
    /\ \E d \in wTree.dirs, n \in WalkNames :
          /\ Append(d, n) \notin wTree.files \cup wTree.dirs
          /\ wTree' = [wTree EXCEPT !.dirs = @ \cup {Append(d, n)}]
    /\ UNCHANGED <<wPc, wFilePats, wDirPats, wQueue, wItem, wNames, wOut, wListed>>
    /\ UNCHANGED <<pkgVars, addonVars>>

\* The call: output = [], the queue holds (src_path, []).
WalkCall ==
    /\ wPc = "build"
    /\ wPc' = "walk"
    /\ wQueue' = <<[dirpath |-> WalkRoot, parents |-> <<>>]>>
    /\ wOut' = <<>>
    /\ UNCHANGED <<wTree, wFilePats, wDirPats, wItem, wNames, wListed>>
    /\ UNCHANGED <<pkgVars, addonVars>>

\* hierarchy_queue.popleft() and os.listdir(dirpath)
WalkPop ==
    /\ wPc = "walk"
    /\ wNames = {}
    /\ wQueue # <<>>
    /\ wItem' = Head(wQueue)
    /\ wQueue' = Tail(wQueue)
    /\ wNames' = ListDir(wTree, Head(wQueue).dirpath)
    /\ wListed' = wListed \cup {Head(wQueue).dirpath}
    /\ UNCHANGED <<wPc, wTree, wFilePats, wDirPats, wOut>>
    /\ UNCHANGED <<pkgVars, addonVars>>

\* One iteration of the for loop.
WalkName ==
    /\ wPc = "walk"
    /\ \E name \in wNames :
          LET acc == WalkEntry(wTree, wItem, name,
                               [queue |-> wQueue, output |-> wOut],
                               wFilePats, wDirPats)
          IN  /\ wQueue' = acc.queue
              /\ wOut' = acc.output
              /\ wNames' = wNames \ {name}
    /\ UNCHANGED <<wPc, wTree, wFilePats, wDirPats, wItem, wListed>>
    /\ UNCHANGED <<pkgVars, addonVars>>

\* return output
WalkReturn ==
    /\ wPc = "walk"
    /\ wNames = {}
    /\ wQueue = <<>>
    /\ wPc' = "done"
    /\ UNCHANGED <<wTree, wFilePats, wDirPats, wQueue, wItem, wNames, wOut, wListed>>
    /\ UNCHANGED <<pkgVars, addonVars>>

NextWalk == AddFile \/ AddDir \/ WalkCall \/ WalkPop \/ WalkName \/ WalkReturn

InitSpecWalk == InitWalk /\ PkgIdle /\ AddonIdle

SpecWalk == InitSpecWalk /\ [][NextWalk]_vars

Init == InitPkg /\ WalkIdle /\ AddonIdle

Spec == Init /\ [][NextPkg]_vars

NextAddon ==
    \/ Initialize \/ TrayInit \/ TrayStart \/ TrayExit \/ ShowDownloadWindow \/ Connect \/ StartCall
    \/ StartReturn \/ StoreWindow \/ FetchChunk \/ OnDownloadFinish

InitSpecAddon == InitAddon /\ WalkIdle /\ PkgIdle

SpecAddon == InitSpecAddon /\ [][NextAddon]_vars


(***************************************************************************)
(* C6                                                                      *)
(***************************************************************************)
\* The directories that are path's ancestors below the root (the root is not one).
AncestorDirs(root, path) ==
    { SubSeq(path, 1, k) : k \in (Len(root) + 1)..(Len(path) - 1) }

\* No ancestor directory of path below the root has an excluded name.
Reachable(root, path, dpats) ==
    \A d \in AncestorDirs(root, path) : ~value_match_regexes(Last(d), dpats)

Kept(tree, root, fpats, dpats) ==
    { f \in tree.files :
        /\ IsPrefix(root, f)
        /\ ~value_match_regexes(Last(f), fpats)
        /\ Reachable(root, f, dpats) }

SeqSet(s) == { s[i] : i \in 1..Len(s) }

\* C6: when find_files_in_subdir returns, its output holds exactly the files whose
\* name matches no file pattern and that have no ancestor directory below the root
\* with a name matching a directory pattern, each once, each with the relative path
\* made of its components below the root; os.listdir was called on exactly the
\* directories that are not excluded and have no excluded ancestor (an excluded
\* directory is never listed, its siblings are).
C6_WalkerExact ==
    wPc = "done" =>
        /\ { e[1] : e \in SeqSet(wOut) } = Kept(wTree, WalkRoot, wFilePats, wDirPats)
        /\ Cardinality(SeqSet(wOut)) = Len(wOut)
        /\ \A i, j \in 1..Len(wOut) : wOut[i][1] = wOut[j][1] => i = j
        /\ \A e \in SeqSet(wOut) : e[2] = Below(WalkRoot, e[1])
        /\ wListed = { d \in wTree.dirs :
                         /\ Reachable(WalkRoot, d, wDirPats)
                         /\ d # WalkRoot => ~value_match_regexes(Last(d), wDirPats) }

\* A walk has returned over a tree where a file is dropped for its name, a directory
\* with a file in it is excluded, and a sibling directory was descended into.
C6_Witness ==
    /\ wPc = "done"
    /\ \E f \in wTree.files : value_match_regexes(Last(f), wFilePats)
    /\ \E d \in wTree.dirs :
          /\ d # WalkRoot
          /\ value_match_regexes(Last(d), wDirPats)
          /\ \E e \in wTree.dirs : e # WalkRoot /\ e # d /\ Front(e) = Front(d) /\ e \in wListed
    /\ Len(wOut) > 0



(***************************************************************************)
(* C1                                                                      *)
(***************************************************************************)
Digest(content) == calculate_file_checksum(content, "sha256", DefaultChunkSize)[2]

\* Every source's file is in the downloads directory with the declared digest.
AllVerified ==
    \A i \in 1..Len(USD_SOURCES) :
        /\ ZipPath(i) \in DOMAIN fs.data
        /\ Digest(fs.data[ZipPath(i)]) = USD_SOURCES[i].checksum

OutputPcs == {"purge", "version", "mkout", "scan", "copy", "mkprivate", "archives",
              "info", "client", "package", "remove"}

\* C1: no package-output step (purge, version stamp, server copy, archive copy,
\* files_info.json, client.zip, final zip) runs or has run unless every source's
\* downloaded file has the declared digest; and when a freshly downloaded file's
\* digest differs, the run has ended with an error, has completed no step and has
\* left the output directory as it found it.
C1_VerifiedBeforeOutput ==
    /\ (pc \in OutputPcs \/ done \ {"download"} # {} \/ pc = "done")
          => ("download" \in done /\ AllVerified)
    /\ \A i \in fetched :
          (/\ ZipPath(i) \in DOMAIN fs.data
           /\ Digest(fs.data[ZipPath(i)]) # USD_SOURCES[i].checksum
           /\ pc # "dl_verify")
          => /\ pc = "failed"
             /\ raisedAt \in {"dl_fetch", "dl_verify"}
             /\ done = {}
             /\ FilesUnder(fs, output_dir) = before.out
             /\ IsDir(fs, addon_output_dir) = before.version_dir

\* A run that fetched a corrupt archive has ended on the checksum mismatch, the
\* output directory holding an earlier package.
C1_Witness ==
    /\ pc = "failed"
    /\ raisedAt = "dl_verify"
    /\ fetched # {}
    /\ before.version_dir
    /\ IsDir(fs, addon_output_dir)

(***************************************************************************)
(* C2                                                                      *)
(***************************************************************************)
PreMatches(i) == pre[i] # <<"absent">> /\ Digest(pre[i]) = USD_SOURCES[i].checksum

\* download_usd_zip is through with source i: it was looked at and is not the one
\* about to be fetched.
Settled(i) == i <= Len(pre) /\ ~(pc = "dl_fetch" /\ idx = i)

\* C2: for every source download_usd_zip is through with, the URL was fetched if
\* and only if the destination was absent or its digest differed from the declared
\* checksum; a file whose digest matched is not fetched and stays as it was; and
\* when the fetch is about to start, a file whose digest differed is gone.
C2_FetchIffStale ==
    /\ \A i \in 1..Len(pre) :
          /\ Settled(i) => ((i \in fetched) <=> ~PreMatches(i))
          /\ PreMatches(i) =>
                (ZipPath(i) \in DOMAIN fs.data /\ fs.data[ZipPath(i)] = pre[i])
    /\ pc = "dl_fetch" => ZipPath(idx) \notin DOMAIN fs.data

\* One run found one archive with the declared digest and skipped it, and found
\* another with a different digest, removed it and fetched it again.
C2_Witness ==
    /\ "download" \in done
    /\ \E i, j \in 1..Len(pre) :
          /\ PreMatches(i) /\ i \notin fetched
          /\ pre[j] # <<"absent">> /\ ~PreMatches(j) /\ j \in fetched

(***************************************************************************)
(* C3                                                                      *)
(***************************************************************************)
ArchiveExists == ServerPackagePath(ADDON_VERSION) \in DOMAIN fs.data

LayoutIntact ==
    /\ IsDir(fs, addon_output_dir)
    /\ IsDir(fs, Append(addon_output_dir, SERVER))
    /\ IsDir(fs, private_dir)
    /\ Append(private_dir, CLIENT_ZIP) \in DOMAIN fs.data
    /\ Append(private_dir, FILES_INFO_JSON) \in DOMAIN fs.data

ArchiveBefore == Below(output_dir, ServerPackagePath(ADDON_VERSION)) \in DOMAIN before.out

\* The part of the claim that stands as stated: with no flags the archive exists and
\* the version directory is gone, removed only once the archive is written; with
\* keep_sources (and no skip_zip) both the archive and the version directory exist.
C3_ZipAndSources ==
    /\ (pc = "done" /\ ~skip_zip /\ ~keep_sources)
          => (ArchiveExists /\ ~IsDir(fs, addon_output_dir))
    /\ (pc = "done" /\ ~skip_zip /\ keep_sources) => (ArchiveExists /\ LayoutIntact)
    /\ (pc = "remove" \/ "remove" \in done) => ("package" \in done /\ ArchiveExists)
    /\ (pc = "done" /\ skip_zip) => LayoutIntact

OutsideVersionDir(f) ==
    [data |-> [q \in { x \in DOMAIN f.data : ~IsPrefix(addon_output_dir, x) } |-> f.data[q]],
     dirs |-> { d \in f.dirs : ~IsPrefix(addon_output_dir, d) }]

\* C4 as stated: the purge step removes what is at the target version path and
\* nothing else: every other entry of the output directory is left unchanged by it.
C4_PurgeOnlyVersionDir ==
    [][(pc = "purge" /\ pc' = "version") =>
         /\ OutsideVersionDir(fs') = OutsideVersionDir(fs)
         /\ ~PathExists(fs', addon_output_dir)]_vars

(***************************************************************************)
(* C5                                                                      *)
(***************************************************************************)
\* The clean slate: the repository alone, no downloads, no output directory.
CleanFS == InitialFS(TRUE, TRUE, FALSE, FALSE)

RECURSIVE CopyAll(_, _, _)
CopyAll(f, list, k) ==
    IF k > Len(list) THEN f
    ELSE CopyAll(safe_copy_file(f, list[k][1], list[k][2], FALSE).fs, list, k + 1)

RECURSIVE FetchAll(_, _)
FetchAll(f, i) ==
    IF i > Len(USD_SOURCES) THEN f
    ELSE FetchAll(WriteFile(f, ZipPath(i), Bytes(Published[i])), i + 1)

RECURSIVE CopyArchives(_, _)
CopyArchives(f, i) ==
    IF i > Len(USD_SOURCES) THEN f
    ELSE CopyArchives(WriteFile(f, Append(private_dir, UrlFilename(USD_SOURCES[i].url)),
                                f.data[ZipPath(i)]), i + 1)

\* A complete run on the clean slate, up to and including zip_client_side.
CleanBuilt ==
    LET f1 == FetchAll(MakeDirs(CleanFS, downloads_dir), 1)
        f2 == fill_client_version(Purge(f1), current_dir).fs
        f3 == MakeDirs(f2, addon_output_dir)
        f4 == CopyAll(f3, ServerFilepaths(f3, addon_output_dir, current_dir), 1)
        f5 == CopyArchives(MakeDirs(f4, private_dir), 1)
        f6 == WriteFile(f5, Append(private_dir, FILES_INFO_JSON),
                        <<"json", [i \in 1..Len(USD_SOURCES) |-> ZipFileInfo(USD_SOURCES[i])]>>)
    IN  zip_client_side(f6, addon_output_dir, current_dir)

\* The same run to its end, with the given flags.
CleanDone(skip, keep) ==
    IF skip THEN CleanBuilt
    ELSE LET zipped == create_server_package(CleanBuilt, current_dir, output_dir,
                                             addon_output_dir, ADDON_VERSION)
         IN  IF keep THEN zipped ELSE RmTree(zipped, addon_output_root)

\* The server-tree copies, the private directory's files (client.zip among them,
\* with its entries) and the directories of the version directory.
PackageTree(f) ==
    [server |-> FilesUnder(f, Append(addon_output_dir, SERVER)),
     private |-> FilesUnder(f, private_dir),
     dirs |-> { d \in f.dirs : IsPrefix(addon_output_dir, d) }]

\* C5: a complete run of main(), started on whatever an earlier run (completed, or
\* aborted at any step with a partial download or a partly written output tree) or an
\* earlier build left, ends with the same server-tree copies, private directory and
\* client.zip as a complete run with the same flags started on a clean slate; the
\* package tree is already the clean run's when zip_client_side has returned.
C5_RerunSameAsClean ==
    /\ pc = "done" => PackageTree(fs) = PackageTree(CleanDone(skip_zip, keep_sources))
    /\ pc \in {"package", "remove"} => PackageTree(fs) = PackageTree(CleanBuilt)

\* A complete run that kept the version directory, started where a stale package
\* tree was in place and a download had broken off or gone wrong.
C5_Witness ==
    /\ pc = "done"
    /\ skip_zip \/ keep_sources
    /\ before.version_dir
    /\ \E i \in 1..Len(pre) : pre[i] # <<"absent">> /\ ~PreMatches(i)
    /\ PackageTree(fs).server # [q \in {} |-> <<>>]

(***************************************************************************)
(* C7                                                                      *)
(***************************************************************************)
ArchiveEntries == fs.data[ServerPackagePath(ADDON_VERSION)][2]

CurrentVersionContent == CLIENT_VERSION_CONTENT(ADDON_NAME, ADDON_VERSION)

\* C8: in a run that has reached the client zipping step, _fill_client_version has
\* run before, version.py holds the current name and version, and once client.zip is
\* written its version.py entry carries them, whatever the file held before the run.
C8_VersionStampCurrent ==
    /\ (pc = "client" \/ "client" \in done) =>
          /\ "version" \in done
          /\ fs.data[version_file] = CurrentVersionContent
    /\ ("client" \in done /\ pc \in {"package", "remove"}) =>
          Append(private_dir, CLIENT_ZIP) \in DOMAIN fs.data
    /\ ("client" \in done /\ Append(private_dir, CLIENT_ZIP) \in DOMAIN fs.data) =>
          LET entries == fs.data[Append(private_dir, CLIENT_ZIP)][2]
          IN  /\ \E e \in SeqSet(entries) : e[1] = <<ADDON_CLIENT_DIR, VERSION_PY>>
              /\ \A e \in SeqSet(entries) :
                    e[1] = <<ADDON_CLIENT_DIR, VERSION_PY>> => e[2] = CurrentVersionContent

\* client.zip has been written in a run that found version.py with an older version.
C8_Witness ==
    /\ "client" \in done
    /\ before.version_py = CLIENT_VERSION_CONTENT(ADDON_NAME, OLD_VERSION)
    /\ Append(private_dir, CLIENT_ZIP) \in DOMAIN fs.data

(***************************************************************************)
(* C10                                                                     *)
(***************************************************************************)
StepOrder == <<"download", "purge", "version", "mkout", "copy", "mkprivate", "archives",
               "info", "client", "package", "remove">>

\* The step a statement of main() belongs to.
StepOf(at) ==
    CASE at \in {"dl_check", "dl_fetch", "dl_verify"} -> "download"
      [] at = "scan" -> "copy"
      [] OTHER -> at

Position(step) == CHOOSE k \in 1..Len(StepOrder) : StepOrder[k] = step

\* What the package must hold, read off the sources.
ExpectedServer ==
    LET root == Append(current_dir, SERVER)
    IN  [rel \in { Below(root, p) : p \in Kept(TreeOf(fs), root, IGNORE_FILE_PATTERNS,
                                                 IGNORE_DIR_PATTERNS) }
            |-> fs.data[root \o rel]]

ExpectedClient ==
    LET root == Append(current_dir, CLIENT)
    IN  { <<Below(root, p), fs.data[p]>> :
            p \in Kept(TreeOf(fs), root, IGNORE_FILE_PATTERNS, IGNORE_DIR_PATTERNS) }

PackageComplete ==
    /\ FilesUnder(fs, Append(addon_output_dir, SERVER)) = ExpectedServer
    /\ \A i \in 1..Len(USD_SOURCES) :
          /\ Append(private_dir, UrlFilename(USD_SOURCES[i].url)) \in DOMAIN fs.data
          /\ fs.data[Append(private_dir, UrlFilename(USD_SOURCES[i].url))] = Bytes(Published[i])
    /\ Append(private_dir, FILES_INFO_JSON) \in DOMAIN fs.data
    /\ Append(private_dir, CLIENT_ZIP) \in DOMAIN fs.data
    /\ SeqSet(fs.data[Append(private_dir, CLIENT_ZIP)][2]) = ExpectedClient

\* C10: when a step of main() raises, the run is over and no later step has run;
\* and a run that finishes has run every step its flags ask for and leaves nothing of
\* the package out: the version directory is complete when it is kept, and the
\* archive, written from the complete version directory, exists unless skip_zip.
C10_FailFast ==
    /\ raisedAt # "" =>
          /\ pc = "failed"
          /\ \A s \in done : Position(s) < Position(StepOf(raisedAt))
    /\ pc = "failed" => raisedAt # ""
    /\ pc = "done" =>
          /\ raisedAt = ""
          /\ done = { StepOrder[k] : k \in 1..9 }
                    \cup (IF skip_zip THEN {} ELSE {"package"})
                    \cup (IF skip_zip \/ keep_sources THEN {} ELSE {"remove"})
          /\ (skip_zip \/ keep_sources) => PackageComplete
          /\ ~skip_zip => ArchiveExists
    /\ pc \in {"package", "remove"} => PackageComplete

\* A copy of a server file failed after the output directory was made and a first
\* file copied into it: the run ended there, part of the server tree written.
C10_Witness ==
    /\ pc = "failed"
    /\ raisedAt = "copy"
    /\ idx > 1
    /\ "mkout" \in done


(***************************************************************************)
(* C9                                                                      *)
(***************************************************************************)
\* C9 as stated: the completion callback never raises; once the finished signal was
\* delivered and tray_start has returned, the dialog is closed and _download_window
\* is None; and when no download is needed no dialog exists and _download_window is
\* None.
C9_DialogReleased ==
    /\ ~aError
    /\ (emitted /\ aPc \in {"returned", "exited"})
          => (dialog = "closed" /\ self_download_window = "None")
    /\ ~download_usd => (dialog = "none" /\ self_download_window = "None")

=============================================================================
